---- MODULE Spec2Model ----
(***************************************************************************)
(* Model of the design-ops orchestration scripts.                          *)
(*                                                                         *)
(* Spec models enforcement/claude-code-orchestrator.py: main, the retry    *)
(* loop run_gate_with_loop, the gate runner run_design_ops_gate and the    *)
(* ten-stage run_full_pipeline.  The external validator and the console    *)
(* are the environment: the validator may exit with any output, exit code  *)
(* and instruction files, may fail to start, or may never return; the      *)
(* console answers the remediation prompt with ENTER or with end of input. *)
(*                                                                         *)
(* Strings that the code parses as paths are sequences of tokens in which  *)
(* "/" is a token of its own; a pathlib.Path is the sequence of its parts. *)
(* None and the empty string are both the empty sequence: the code only    *)
(* tests them for truth.                                                   *)
(***************************************************************************)
EXTENDS Integers, Sequences, FiniteSets, TLC

\* ------------------------------------------------------------- bounds
\* Largest --max-iterations value drawn besides the default.
MaxIter == 3
\* Longest validator standard output, in tokens.
MaxOut == 2

\* ---------------------------------------------------------- constants
\* argparse default of --max-iterations.
DefaultMaxIterations == 5
\* max_iterations passed by run_full_pipeline to every stage.
PipelineMaxIterations == 5

\* The check mark (U+2705) the validator prints on success.
SuccessMarker == "CHECKMARK"
PassToken == "PASS"
StdoutTokens == {SuccessMarker, PassToken, "FAIL"}

None == <<>>
Truthy(x) == x # <<>>

\* ------------------------------------------------------------- paths
\* pathlib.Path(s).parts for a relative path: separators and "." dropped.
PathParts(s) == SelectSeq(s, LAMBDA c : c # "/" /\ c # ".")
\* Path.parent: all parts but the last (Path(".") is its own parent).
PathParent(p) == IF Len(p) = 0 THEN <<>> ELSE SubSeq(p, 1, Len(p) - 1)
\* Path.name: the last part ("" for Path(".")).
PathName(p) == IF Len(p) = 0 THEN "" ELSE p[Len(p)]

\* Mutant of InstructionFile: the target's directory is dropped.
InstructionFile_InCwd(gate, target) ==
    << PathName(PathParts(target)) \o "." \o gate \o "-instruction.md" >>

\* target_path.parent / f"{target_path.name}.{gate}-instruction.md"
InstructionFile(gate, target) ==
    LET target_path == PathParts(target)
    IN  Append(PathParent(target_path),
               PathName(target_path) \o "." \o gate \o "-instruction.md")

\* "x in result.stdout"
Contains(stdout, tok) == \E i \in DOMAIN stdout : stdout[i] = tok

\* Mutant of StdoutPassed: the PASS token is not looked for.
StdoutPassed_MarkerOnly(stdout) == Contains(stdout, SuccessMarker)

\* The success test of run_design_ops_gate.
StdoutPassed(stdout) == Contains(stdout, SuccessMarker) /\ Contains(stdout, PassToken)

\* --------------------------------------------------------- the stages
ReqDirs == { <<"requirements", "/", "phase4", "/">>, <<"reqs">> }

stages(requirements_dir) == <<
    [gate |-> "create-spec",     input |-> requirements_dir,  output |-> <<"spec.md">>],
    [gate |-> "stress-test",     input |-> <<"spec.md">>,     output |-> None],
    [gate |-> "validate",        input |-> <<"spec.md">>,     output |-> None],
    [gate |-> "generate",        input |-> <<"spec.md">>,     output |-> <<"spec-PRP.md">>],
    [gate |-> "check",           input |-> <<"spec-PRP.md">>, output |-> None],
    [gate |-> "generate-tests",  input |-> <<"spec-PRP.md">>, output |-> <<"tests", "/">>],
    [gate |-> "implement-tdd",   input |-> <<"tests", "/">>,  output |-> <<"src", "/">>],
    [gate |-> "parallel-checks", input |-> <<"src", "/">>,    output |-> None],
    [gate |-> "smoke-test",      input |-> <<"src", "/">>,    output |-> None],
    [gate |-> "ai-review",       input |-> <<"src", "/">>,    output |-> None] >>

NumStages == Len(stages(<<>>))
StageIds == 1..NumStages

\* ------------------------------------------------------------- inputs
Commands == {"", "run-gate", "run-pipeline", "validate-spec"}
GateArgs == {"validate", "stress-test"}
TargetArgs == { <<"specs", "/", "phase4-spec.md">>, <<"spec.md">>, <<"tests", "/">> }
IterationArgs == ((0 - 1)..MaxIter) \cup {DefaultMaxIterations}

Stdouts == UNION { [1..n -> StdoutTokens] : n \in 0..MaxOut }

\* Files the validator may leave behind for (gate, target): the instruction
\* file beside the target, one for another gate, one in another directory.
NearbyFiles(gate, target) ==
    LET parts == PathParts(target)
        dir   == IF Len(parts) = 0 THEN <<>> ELSE SubSeq(parts, 1, Len(parts) - 1)
        name  == IF Len(parts) = 0 THEN "" ELSE parts[Len(parts)]
    IN  { Append(dir, name \o "." \o gate \o "-instruction.md"),
          Append(dir, name \o ".other-instruction.md"),
          Append(Append(dir, "out"), name \o "." \o gate \o "-instruction.md") }

NoResult == [stdout |-> <<>>, returncode |-> 0 - 1]

VARIABLES
    command,          \* args.command
    gateArg,          \* args.gate
    targetArg,        \* args.target / args.spec_file / args.requirements_dir
    iterationsArg,    \* args.max_iterations
    scriptExists,     \* DESIGN_OPS_SCRIPT.exists()
    pc,               \* where the process is
    stage,            \* index of the pipeline stage being run (0: none)
    current_target,   \* run_full_pipeline's current_target
    gate,             \* run_design_ops_gate's gate
    target,           \* run_design_ops_gate's target
    max_iterations,   \* run_gate_with_loop's max_iterations
    iteration,        \* the loop variable of run_gate_with_loop
    child,            \* the validator subprocess: none, running, hung
    result,           \* subprocess.run's result
    passed,           \* what run_design_ops_gate returned: passed
    instruction_file, \* what run_design_ops_gate returned: instruction_file
    fs,               \* the instruction files that exist
    success,          \* what run_gate_with_loop returned: none, true, false
    exitCode,         \* the process's exit status (-1: running)
    uncaught,         \* the process ended by an uncaught exception
    calls,            \* history: validator invocations of this loop call
    log,              \* history: outcome of each finished invocation of this loop call
    waits,            \* history: remediation prompts shown in this loop call
    status,           \* history: each stage's status
    stageCalls,       \* history: run_gate_with_loop calls per stage
    stageTarget,      \* history: the target each stage was run on
    artifactWrites,   \* history: the outputs recorded for each stage, in order
    cancelled,        \* history: Ctrl-C arrived during a remediation wait
    run,              \* history: 1 in the first process, 2 in a re-run
    passedBefore      \* history: stages that passed in the run before this one

\* ralph-orchestrator.py, ralph-orchestrator-v3-parallel.py and
\* ralph-task-loader.py: one process of one of the three scripts.
VARIABLES
    script,           \* which script the process runs
    specArg,          \* sys.argv[1] is given
    specExists,       \* Path(spec_file).resolve().exists()
    ralphDir,         \* the directory .ralph exists
    tasksJson,        \* the file .ralph/tasks.json
    ralphPc,          \* where the process is
    tasks,            \* the variable tasks of main
    instructions,     \* the file .ralph/task-creation-instructions.md
    printed,          \* the task summary printed by the loader
    ralphExit,        \* the process's exit status (-1: running)
    ralphUncaught,    \* the process ended by an uncaught exception
    tasksJsonBefore,  \* history: .ralph/tasks.json when the process started
    ralphDirBefore    \* history: .ralph existed when the process started

\* cursor-orchestrator.py: the processes run one after another on one
\* workspace.
VARIABLES
    cursorCommand,    \* args.command
    cursorArgs,       \* len(args.args)
    cursorPc,         \* where the process is
    cursorGate,       \* run_gate's gate
    task_id,          \* run_gate's task_id
    pipeline_task,    \* run_pipeline's pipeline_task ("": not in run_pipeline)
    pipelineStep,     \* which of run_pipeline's run_gate calls is being made
    results,          \* run_pipeline's results
    gateSuccess,      \* what run_gate_with_bash_orchestrator returned: success
    requests,         \* the files in .design-ops/task-requests, by gate
    markers,          \* the files in .design-ops/task-status: << task id, status >>
    cursorExit,       \* the process's exit status (-1: running)
    cursorUncaught,   \* the process ended by an uncaught exception
    cursorRuns,       \* history: processes started so far
    events,           \* history: marker writes and subprocess invocations of this process
    outcomes          \* history: how each gate subprocess of this process ended

cursorVars == << cursorCommand, cursorArgs, cursorPc, cursorGate, task_id,
                 pipeline_task, pipelineStep, results, gateSuccess, requests,
                 markers, cursorExit, cursorUncaught, cursorRuns, events, outcomes >>

\* mcp/design-ops-server.py: the server process and its standard streams.
VARIABLES
    mcpPc,            \* where the process is
    msg,              \* main's msg
    io,               \* history: the lines read from stdin and written to stdout, in order
    mcpExit,          \* the process's exit status (-1: running)
    mcpUncaught       \* the process ended by an uncaught exception

mcpVars == << mcpPc, msg, io, mcpExit, mcpUncaught >>

claudeVars == << command, gateArg, targetArg, iterationsArg, scriptExists, pc, stage,
                 current_target, gate, target, max_iterations, iteration, child,
                 result, passed, instruction_file, fs, success, exitCode, uncaught,
                 calls, log, waits, status, stageCalls, stageTarget, artifactWrites,
                 cancelled, run, passedBefore >>

ralphVars == << script, specArg, specExists, ralphDir, tasksJson, ralphPc, tasks,
                instructions, printed, ralphExit, ralphUncaught, tasksJsonBefore, ralphDirBefore >>

vars == << claudeVars, ralphVars, cursorVars, mcpVars >>

argVars == << command, gateArg, targetArg, iterationsArg, scriptExists >>
loopHist == << calls, log, waits >>
stageHist == << status, stageCalls, stageTarget, artifactWrites >>
runHist == << run, passedBefore >>
\* What no step of one process of claude-code-orchestrator.py changes.
frame == << runHist, ralphVars, cursorVars, mcpVars >>
gateOut == << passed, instruction_file >>

\* A file that does not exist.
NoFile == [exists |-> FALSE, json |-> FALSE, tasks |-> <<>>]

\* No ralph script has been started.
RalphIdle ==
    /\ script = "none"
    /\ specArg = FALSE
    /\ specExists = FALSE
    /\ ralphDir = FALSE
    /\ tasksJson = NoFile
    /\ ralphPc = "idle"
    /\ tasks = <<>>
    /\ instructions = <<>>
    /\ printed = <<>>
    /\ ralphExit = 0 - 1
    /\ ralphUncaught = FALSE
    /\ tasksJsonBefore = NoFile
    /\ ralphDirBefore = FALSE

\* cursor-orchestrator.py has not been started.
CursorIdle ==
    /\ cursorCommand = ""
    /\ cursorArgs = 0
    /\ cursorPc = "idle"
    /\ cursorGate = ""
    /\ task_id = ""
    /\ pipeline_task = ""
    /\ pipelineStep = 0
    /\ results = <<>>
    /\ gateSuccess = FALSE
    /\ requests = {}
    /\ markers = {}
    /\ cursorExit = 0 - 1
    /\ cursorUncaught = FALSE
    /\ cursorRuns = 0
    /\ events = <<>>
    /\ outcomes = <<>>

\* No message: what msg holds before the first line is read.
NoMsg == [json |-> "none", method |-> "absent", id |-> 0, params |-> "absent",
          name |-> "absent", arguments |-> "absent", text |-> <<>>]

\* mcp/design-ops-server.py has not been started.
McpIdle ==
    /\ mcpPc = "idle"
    /\ msg = NoMsg
    /\ io = <<>>
    /\ mcpExit = 0 - 1
    /\ mcpUncaught = FALSE

\* claude-code-orchestrator.py has not been started.
ClaudeIdle ==
    /\ command = ""
    /\ scriptExists = FALSE
    /\ gateArg = "validate"
    /\ targetArg = <<>>
    /\ iterationsArg = DefaultMaxIterations
    /\ pc = "idle"
    /\ stage = 0
    /\ current_target = None
    /\ gate = ""
    /\ target = <<>>
    /\ max_iterations = 0
    /\ iteration = 0
    /\ child = "none"
    /\ result = NoResult
    /\ passed = FALSE
    /\ instruction_file = <<>>
    /\ fs = {}
    /\ success = "none"
    /\ exitCode = 0 - 1
    /\ uncaught = FALSE
    /\ calls = 0
    /\ log = <<>>
    /\ waits = 0
    /\ status = [s \in StageIds |-> "Pending"]
    /\ stageCalls = [s \in StageIds |-> 0]
    /\ stageTarget = [s \in StageIds |-> <<>>]
    /\ artifactWrites = [s \in StageIds |-> <<>>]
    /\ cancelled = FALSE
    /\ run = 1
    /\ passedBefore = 0

Init ==
    /\ RalphIdle
    /\ CursorIdle
    /\ McpIdle
    /\ command \in Commands
    /\ scriptExists \in BOOLEAN
    /\ gateArg \in (IF command = "run-gate" THEN GateArgs ELSE {"validate"})
    /\ targetArg \in (IF command = "run-pipeline" THEN ReqDirs
                      ELSE IF command = "" THEN { <<>> } ELSE TargetArgs)
    /\ iterationsArg \in (IF command = "run-gate" THEN IterationArgs
                          ELSE {DefaultMaxIterations})
    /\ pc = "main"
    /\ stage = 0
    /\ current_target = None
    /\ gate = ""
    /\ target = <<>>
    /\ max_iterations = 0
    /\ iteration = 0
    /\ child = "none"
    /\ result = NoResult
    /\ passed = FALSE
    /\ instruction_file = <<>>
    /\ fs = {}
    /\ success = "none"
    /\ exitCode = 0 - 1
    /\ uncaught = FALSE
    /\ calls = 0
    /\ log = <<>>
    /\ waits = 0
    /\ status = [s \in StageIds |-> "Pending"]
    /\ stageCalls = [s \in StageIds |-> 0]
    /\ stageTarget = [s \in StageIds |-> <<>>]
    /\ artifactWrites = [s \in StageIds |-> <<>>]
    /\ cancelled = FALSE
    /\ run = 1
    /\ passedBefore = 0

\* sys.exit(code)
Exit(code) ==
    /\ pc' = "exited"
    /\ exitCode' = code
    /\ uncaught' = FALSE

\* An exception nobody catches: traceback, exit status 1.
Raise ==
    /\ pc' = "exited"
    /\ exitCode' = 1
    /\ uncaught' = TRUE

\* The entry of run_gate_with_loop(g, t, n).
EnterLoop(g, t, n) ==
    /\ gate' = g
    /\ target' = t
    /\ max_iterations' = n
    /\ iteration' = 1
    /\ success' = "none"
    /\ calls' = 0
    /\ log' = <<>>
    /\ waits' = 0
    /\ pc' = "loop"

\* Mutant of StartupFatal: the validator script is not looked for.
StartupFatal_NoScriptCheck(cmd, exists) == cmd = ""

\* "if not args.command: ... sys.exit(1)" and "if not
\* DESIGN_OPS_SCRIPT.exists(): ... sys.exit(1)"
StartupFatal(cmd, exists) == cmd = "" \/ ~exists

\* main: parse the arguments, look for the validator script, route.
Main ==
    /\ pc = "main"
    /\ IF StartupFatal(command, scriptExists)
       THEN /\ Exit(1)
            /\ UNCHANGED << stage, current_target, gate, target, max_iterations,
                            iteration, success, child, loopHist >>
       ELSE /\ UNCHANGED << exitCode, uncaught >>
            /\ CASE command = "run-gate" ->
                      /\ EnterLoop(gateArg, targetArg, iterationsArg)
                      /\ UNCHANGED << stage, current_target, child >>
                 [] command = "run-pipeline" ->
                      /\ pc' = "stage"
                      /\ stage' = 1
                      /\ current_target' = None
                      /\ UNCHANGED << gate, target, max_iterations, iteration,
                                      success, child, loopHist >>
                 [] command = "validate-spec" ->
                      /\ pc' = "subprocess"
                      /\ child' = "running"
                      /\ gate' = "validate"
                      /\ target' = targetArg
                      /\ calls' = calls + 1
                      /\ UNCHANGED << stage, current_target, max_iterations,
                                      iteration, success, log, waits >>
    /\ UNCHANGED << argVars, frame, cancelled, result, gateOut, fs, stageHist >>

\* Mutant of LoopHasNext: one round too many.
LoopHasNext_OffByOne(i, n) == i <= n + 1

\* Mutant of LoopHasNext: the body runs once before the bound is tested.
LoopHasNext_AtLeastOnce(i, n) == i = 1 \/ i <= n

\* "for iteration in range(1, max_iterations + 1)": is there another round?
LoopHasNext(i, n) == i <= n

\* The top of the loop of run_gate_with_loop: start the validator for this
\* iteration, or leave the loop and return False.
ForIteration ==
    /\ pc = "loop"
    /\ IF LoopHasNext(iteration, max_iterations)
       THEN /\ pc' = "subprocess"
            /\ child' = "running"
            /\ calls' = calls + 1
            /\ UNCHANGED success
       ELSE /\ pc' = "loop_return"
            /\ success' = "false"
            /\ UNCHANGED << child, calls >>
    /\ UNCHANGED << argVars, frame, cancelled, stage, current_target, gate, target, max_iterations,
                    iteration, result, gateOut, fs, exitCode, uncaught, log, waits,
                    stageHist >>

\* The validator ends: subprocess.run returns its output and exit code. The
\* validator has written or removed instruction files as it pleased.
ValidatorExits ==
    /\ pc = "subprocess"
    /\ child = "running"
    /\ \E out \in Stdouts, rc \in {0, 1}, files \in SUBSET NearbyFiles(gate, target) :
          /\ result' = [stdout |-> out, returncode |-> rc]
          /\ fs' = files
    /\ child' = "none"
    /\ pc' = "gate_result"
    /\ UNCHANGED << argVars, frame, cancelled, stage, current_target, gate, target, max_iterations,
                    iteration, gateOut, success, exitCode, uncaught, loopHist,
                    stageHist >>

\* subprocess.run raises (the script cannot be executed, its output cannot be
\* decoded): "except Exception" returns (False, "").
ValidatorRaises ==
    /\ pc = "subprocess"
    /\ child = "running"
    /\ child' = "none"
    /\ result' = NoResult
    /\ passed' = FALSE
    /\ instruction_file' = <<>>
    /\ log' = Append(log, "raised")
    /\ pc' = "gate_return"
    /\ UNCHANGED << argVars, frame, cancelled, stage, current_target, gate, target, max_iterations,
                    iteration, fs, success, exitCode, uncaught, calls, waits,
                    stageHist >>

\* The validator never returns. subprocess.run is called without a timeout,
\* so nothing in the process is left to act.
ValidatorHangs ==
    /\ pc = "subprocess"
    /\ child = "running"
    /\ child' = "hung"
    /\ UNCHANGED << argVars, frame, cancelled, pc, stage, current_target, gate, target, max_iterations,
                    iteration, result, gateOut, fs, success, exitCode, uncaught,
                    loopHist, stageHist >>

\* What a finished invocation is recorded as.
Outcome(p, f) == IF p THEN "pass" ELSE IF Truthy(f) THEN "guided" ELSE "noguide"

\* run_design_ops_gate after subprocess.run returned: the success test, then
\* the look for the instruction file.
GateClassify ==
    /\ pc = "gate_result"
    /\ IF StdoutPassed(result.stdout)
       THEN /\ passed' = TRUE
            /\ instruction_file' = <<>>
       ELSE /\ passed' = FALSE
            /\ instruction_file' =
                  IF InstructionFile(gate, target) \in fs
                  THEN InstructionFile(gate, target) ELSE <<>>
    /\ log' = Append(log, Outcome(passed', instruction_file'))
    /\ pc' = "gate_return"
    /\ UNCHANGED << argVars, frame, cancelled, stage, current_target, gate, target, max_iterations,
                    iteration, child, result, fs, success, exitCode, uncaught, calls,
                    waits, stageHist >>

\* Mutant of LoopVerdict: a failure without guidance is retried.
LoopVerdict_RetryNoGuidance(p, f) == IF p THEN "true" ELSE "retry"

\* Mutant of LoopVerdict: the "if passed: return True" test is missing.
LoopVerdict_IgnorePass(p, f) == IF ~Truthy(f) THEN "false" ELSE "retry"

\* The branch the loop body takes on (passed, instruction_file): "if passed:
\* return True", "if not instruction_file: return False", else remediation.
LoopVerdict(p, f) == IF p THEN "true" ELSE IF ~Truthy(f) THEN "false" ELSE "retry"

\* The body of the loop of run_gate_with_loop after run_design_ops_gate
\* returned: return True, return False, or read the instruction file and
\* prompt. read_instruction_file raises when the file cannot be opened.
LoopCheck ==
    /\ pc = "gate_return"
    /\ command \in {"run-gate", "run-pipeline"}
    /\ result' = NoResult
    /\ LET verdict == LoopVerdict(passed, instruction_file)
       IN  IF verdict \in {"true", "false"}
           THEN /\ success' = verdict
                /\ pc' = "loop_return"
                /\ UNCHANGED << exitCode, uncaught, waits >>
           ELSE /\ \E readable \in BOOLEAN :
                      IF readable
                      THEN /\ pc' = "prompt"
                           /\ waits' = waits + 1
                           /\ UNCHANGED << exitCode, uncaught >>
                      ELSE /\ Raise
                           /\ UNCHANGED waits
                /\ UNCHANGED success
    /\ UNCHANGED << argVars, frame, cancelled, stage, current_target, gate, target, max_iterations,
                    iteration, child, gateOut, fs, calls, log, stageHist >>

\* A process that Ctrl-C ends: KeyboardInterrupt is caught nowhere. The
\* interpreter prints the traceback and, depending on its version, exits with
\* status 1 or kills itself with SIGINT.
Interrupted ==
    \E bySignal \in BOOLEAN :
        IF bySignal
        THEN /\ pc' = "killed"
             /\ uncaught' = TRUE
             /\ UNCHANGED exitCode
        ELSE Raise

\* input("Press ENTER to continue..."): ENTER starts the next iteration, end
\* of input raises EOFError, Ctrl-C raises KeyboardInterrupt.
Prompt ==
    /\ pc = "prompt"
    /\ \E answer \in {"enter", "eof", "interrupt"} :
          CASE answer = "enter" ->
                  /\ iteration' = iteration + 1
                  /\ pc' = "loop"
                  /\ UNCHANGED << exitCode, uncaught, cancelled >>
            [] answer = "eof" ->
                  /\ Raise
                  /\ UNCHANGED << iteration, cancelled >>
            [] answer = "interrupt" ->
                  /\ Interrupted
                  /\ cancelled' = TRUE
                  /\ UNCHANGED iteration
    /\ UNCHANGED << argVars, frame, stage, current_target, gate, target,
                    max_iterations, child, result, gateOut, fs, success, loopHist,
                    stageHist >>

\* Mutant of ExitStatus: the result is dropped.
ExitStatus_AlwaysZero(ok) == 0

\* Mutant of ExitStatus: the two statuses are swapped.
ExitStatus_Inverted(ok) == IF ok THEN 1 ELSE 0

\* "sys.exit(0 if success else 1)"
ExitStatus(ok) == IF ok THEN 0 ELSE 1

\* main, run-gate: exit with the loop's result.
RunGateExit ==
    /\ pc = "loop_return"
    /\ command = "run-gate"
    /\ Exit(ExitStatus(success = "true"))
    /\ UNCHANGED << argVars, frame, cancelled, stage, current_target, gate, target, max_iterations,
                    iteration, child, result, gateOut, fs, success, loopHist,
                    stageHist >>

\* main, validate-spec: one invocation, exit 0 if it passed and 1 if not.
ValidateSpecExit ==
    /\ pc = "gate_return"
    /\ command = "validate-spec"
    /\ result' = NoResult
    /\ Exit(ExitStatus(passed))
    /\ UNCHANGED << argVars, frame, cancelled, stage, current_target, gate, target, max_iterations,
                    iteration, child, gateOut, fs, success, loopHist, stageHist >>

\* Mutant of StageTarget: the two branches are swapped.
StageTarget_Swapped(cur, input) == IF Truthy(cur) THEN input ELSE cur

\* "target = current_target if current_target else input_target"
StageTarget(cur, input) == IF Truthy(cur) THEN cur ELSE input

\* run_full_pipeline: the next stage of the list is run through the loop.
PipelineStage ==
    /\ pc = "stage"
    /\ LET st == stages(targetArg)[stage]
           t  == StageTarget(current_target, st.input)
       IN  /\ EnterLoop(st.gate, t, PipelineMaxIterations)
           /\ status' = [status EXCEPT ![stage] = "Attempting"]
           /\ stageCalls' = [stageCalls EXCEPT ![stage] = @ + 1]
           /\ stageTarget' = [stageTarget EXCEPT ![stage] = t]
           /\ UNCHANGED artifactWrites
    /\ UNCHANGED << argVars, frame, cancelled, stage, current_target, child, result, gateOut, fs,
                    exitCode, uncaught >>

\* Mutant of PipelineHalts: a failed stage does not stop the run.
PipelineHalts_Never(ok) == FALSE

\* "if not success: return False"
PipelineHalts(ok) == ~ok

\* Mutant of NextStage: the same stage is taken again.
NextStage_Repeat(s) == s

\* Mutant of NextStage: a stage is skipped.
NextStage_Skip(s) == s + 2

\* The stage after stage s in the "for ... in stages" loop.
NextStage(s) == s + 1

\* run_full_pipeline after the loop returned: stop at a failed stage, else
\* take over the stage's output and go on; main exits with the result.
PipelineStep ==
    /\ pc = "loop_return"
    /\ command = "run-pipeline"
    /\ LET st == stages(targetArg)[stage]
       IN  IF PipelineHalts(success = "true")
           THEN /\ Exit(ExitStatus(FALSE))
                /\ UNCHANGED << stage, current_target, artifactWrites >>
           ELSE /\ current_target' =
                      IF Truthy(st.output) THEN st.output ELSE current_target
                /\ artifactWrites' =
                      IF Truthy(st.output)
                      THEN [artifactWrites EXCEPT ![stage] = Append(@, st.output)]
                      ELSE artifactWrites
                /\ IF NextStage(stage) \in StageIds
                   THEN /\ stage' = NextStage(stage)
                        /\ pc' = "stage"
                        /\ UNCHANGED << exitCode, uncaught >>
                   ELSE /\ Exit(ExitStatus(TRUE))
                        /\ UNCHANGED stage
    /\ status' = [status EXCEPT ![stage] =
                      IF success = "true" THEN "Passed" ELSE "Failed"]
    /\ UNCHANGED << argVars, frame, cancelled, gate, target, max_iterations, iteration, child, result,
                    gateOut, fs, success, loopHist, stageCalls, stageTarget >>

Next ==
    \/ Main
    \/ ForIteration
    \/ ValidatorExits
    \/ ValidatorRaises
    \/ ValidatorHangs
    \/ GateClassify
    \/ LoopCheck
    \/ Prompt
    \/ RunGateExit
    \/ ValidateSpecExit
    \/ PipelineStage
    \/ PipelineStep

Spec == Init /\ [][Next]_vars

\* The command is run a second time after the first process has exited: a
\* new process with the same arguments. Nothing of the first run reaches it
\* but the files on disk; the histories start again, and passedBefore keeps
\* how many stages the first run passed.
Rerun ==
    /\ pc = "exited"
    /\ command = "run-pipeline"
    /\ run = 1
    /\ run' = 2
    /\ passedBefore' = Cardinality({s \in StageIds : status[s] = "Passed"})
    /\ pc' = "main"
    /\ stage' = 0
    /\ current_target' = None
    /\ gate' = ""
    /\ target' = <<>>
    /\ max_iterations' = 0
    /\ iteration' = 0
    /\ result' = NoResult
    /\ passed' = FALSE
    /\ instruction_file' = <<>>
    /\ success' = "none"
    /\ exitCode' = 0 - 1
    /\ uncaught' = FALSE
    /\ calls' = 0
    /\ log' = <<>>
    /\ waits' = 0
    /\ status' = [s \in StageIds |-> "Pending"]
    /\ stageCalls' = [s \in StageIds |-> 0]
    /\ stageTarget' = [s \in StageIds |-> <<>>]
    /\ artifactWrites' = [s \in StageIds |-> <<>>]
    /\ UNCHANGED << argVars, child, fs, cancelled, ralphVars, cursorVars, mcpVars >>

NextRerun == Next \/ Rerun

SpecRerun == Init /\ [][NextRerun]_vars

\* ---------------------------------------------------------------------
\* ralph-orchestrator.py, ralph-orchestrator-v3-parallel.py (the manifest
\* generators) and ralph-task-loader.py (the loader)

MaxTasks == 2

Generators == {"ralph-orchestrator", "ralph-orchestrator-v3-parallel"}
RalphScripts == Generators \cup {"ralph-task-loader"}

Task(id, blocks, blockedBy) == [id |-> id, blocks |-> blocks, blockedBy |-> blockedBy]

\* The list of task definitions in generate_tasks of ralph-orchestrator.py: of each task its
\* id, blocks and blockedBy (subject, description and activeForm are text).
TasksV2 ==
    << Task("ralph-1", << "ralph-2" >>, <<>>),
       Task("ralph-2", << "ralph-3" >>, << "ralph-1" >>),
       Task("ralph-3", << "ralph-4" >>, << "ralph-2" >>),
       Task("ralph-4", << "ralph-5" >>, << "ralph-3" >>),
       Task("ralph-5", << "ralph-5.5" >>, << "ralph-4" >>),
       Task("ralph-5.5", << "ralph-5.75" >>, << "ralph-5" >>),
       Task("ralph-5.75", << "ralph-6" >>, << "ralph-5.5" >>),
       Task("ralph-6", << "ralph-6.5" >>, << "ralph-5.75" >>),
       Task("ralph-6.5", << "ralph-6.9" >>, << "ralph-6" >>),
       Task("ralph-6.9", << "ralph-7" >>, << "ralph-6.5" >>),
       Task("ralph-7", << "ralph-8" >>, << "ralph-6.9" >>),
       Task("ralph-8", <<>>, << "ralph-7" >>) >>

\* The list of task definitions in generate_tasks of ralph-orchestrator-v3-parallel.py: of each task its
\* id, blocks and blockedBy (subject, description and activeForm are text).
TasksV3 ==
    << Task("ralph-1", << "ralph-2" >>, <<>>),
       Task("ralph-2", << "ralph-3" >>, << "ralph-1" >>),
       Task("ralph-3", << "ralph-4" >>, << "ralph-2" >>),
       Task("ralph-4", << "ralph-5" >>, << "ralph-3" >>),
       Task("ralph-5", << "ralph-5.5" >>, << "ralph-4" >>),
       Task("ralph-5.5", << "ralph-5.75" >>, << "ralph-5" >>),
       Task("ralph-5.75", << "ralph-6" >>, << "ralph-5.5" >>),
       Task("ralph-6", << "ralph-6.5" >>, << "ralph-5.75" >>),
       Task("ralph-6.5", << "ralph-6.9" >>, << "ralph-6" >>),
       Task("ralph-6.9", << "ralph-7" >>, << "ralph-6.5" >>),
       Task("ralph-7", << "ralph-8" >>, << "ralph-6.9" >>),
       Task("ralph-8", <<>>, << "ralph-7" >>) >>

\* Mutant of generate_tasks: ralph-5.5 does not list the task that waits for
\* it.
generate_tasks_MissingBlock(s) ==
    IF s = "ralph-orchestrator"
    THEN [TasksV2 EXCEPT ![6].blocks = <<>>]
    ELSE [TasksV3 EXCEPT ![6].blocks = <<>>]

\* Mutant of generate_tasks: the last task waits for a task that is not in
\* the manifest.
generate_tasks_Dangling(s) ==
    IF s = "ralph-orchestrator"
    THEN [TasksV2 EXCEPT ![12].blockedBy = << "ralph-9" >>]
    ELSE [TasksV3 EXCEPT ![12].blockedBy = << "ralph-9" >>]

\* generate_tasks(spec_file), past its test that the spec file exists
generate_tasks(s) == IF s = "ralph-orchestrator" THEN TasksV2 ELSE TasksV3

\* A file holding json.dump(ts).
JsonFile(ts) == [exists |-> TRUE, json |-> TRUE, tasks |-> ts]

\* A file that is not JSON.
Garbled == [exists |-> TRUE, json |-> FALSE, tasks |-> <<>>]

\* The manifests .ralph/tasks.json may hold before the process starts: up to
\* MaxTasks tasks, each blocking and blocked by at most one id, possibly its
\* own or one that no task has.
SampleIds == << "a", "b", "c", "d", "e" >>
RefOptions == { <<>> } \cup { << SampleIds[j] >> : j \in 1..(MaxTasks + 1) }
ManifestsOfLen(n) ==
    { [i \in 1..n |-> Task(SampleIds[i], f[i][1], f[i][2])] :
        f \in [1..n -> RefOptions \X RefOptions] }
PriorManifests == UNION { ManifestsOfLen(n) : n \in 0..MaxTasks }
PriorFiles == { NoFile, Garbled } \cup { JsonFile(m) : m \in PriorManifests }

InitRalph ==
    /\ ClaudeIdle
    /\ CursorIdle
    /\ McpIdle
    /\ script \in RalphScripts
    /\ specArg \in (IF script \in Generators THEN BOOLEAN ELSE {FALSE})
    /\ specExists \in (IF specArg THEN BOOLEAN ELSE {FALSE})
    /\ tasksJson \in PriorFiles
    /\ ralphDir \in (IF tasksJson.exists THEN {TRUE} ELSE BOOLEAN)
    /\ ralphPc = "main"
    /\ tasks = <<>>
    /\ instructions = <<>>
    /\ printed = <<>>
    /\ ralphExit = 0 - 1
    /\ ralphUncaught = FALSE
    /\ tasksJsonBefore = tasksJson
    /\ ralphDirBefore = ralphDir

\* sys.exit(code), or the end of main (status 0)
RalphExit(code) ==
    /\ ralphPc' = "exited"
    /\ ralphExit' = code
    /\ ralphUncaught' = FALSE

\* An exception nobody catches: traceback, exit status 1.
RalphRaise ==
    /\ ralphPc' = "exited"
    /\ ralphExit' = 1
    /\ ralphUncaught' = TRUE

\* main of a generator: "if len(sys.argv) < 2: ... sys.exit(1)"
GeneratorMain ==
    /\ ralphPc = "main"
    /\ script \in Generators
    /\ IF ~specArg
       THEN RalphExit(1)
       ELSE /\ ralphPc' = "generate_tasks"
            /\ UNCHANGED << ralphExit, ralphUncaught >>
    /\ UNCHANGED << claudeVars, cursorVars, mcpVars, script, specArg, specExists, ralphDir, tasksJson,
                    tasks, instructions, printed, tasksJsonBefore, ralphDirBefore >>

\* Mutant of SpecMissing: the spec file is not looked for.
SpecMissing_Never(exists) == FALSE

\* generate_tasks: "if not spec_path.exists()"
SpecMissing(exists) == ~exists

\* tasks = generate_tasks(spec_file): "if not spec_path.exists(): ...
\* sys.exit(1)", else the list of task definitions
GenerateTasks ==
    /\ ralphPc = "generate_tasks"
    /\ IF SpecMissing(specExists)
       THEN /\ RalphExit(1)
            /\ UNCHANGED tasks
       ELSE /\ tasks' = generate_tasks(script)
            /\ ralphPc' = "write"
            /\ UNCHANGED << ralphExit, ralphUncaught >>
    /\ UNCHANGED << claudeVars, cursorVars, mcpVars, script, specArg, specExists, ralphDir, tasksJson,
                    instructions, printed, tasksJsonBefore, ralphDirBefore >>

\* main of a generator, after generate_tasks: mkdir(exist_ok=True) of .ralph,
\* json.dump(tasks) into .ralph/tasks.json, the messages, the end of main
WriteTasks ==
    /\ ralphPc = "write"
    /\ ralphDir' = TRUE
    /\ tasksJson' = JsonFile(tasks)
    /\ RalphExit(0)
    /\ UNCHANGED << claudeVars, cursorVars, mcpVars, script, specArg, specExists, tasks, instructions,
                    printed, tasksJsonBefore, ralphDirBefore >>

\* load_tasks: "if not tasks_file.exists(): ... sys.exit(1)", else
\* json.load(f), which raises JSONDecodeError on what is not JSON. What was
\* loaded is returned as it is.
load_tasks ==
    /\ ralphPc = "main"
    /\ script = "ralph-task-loader"
    /\ IF ~tasksJson.exists
       THEN /\ RalphExit(1)
            /\ UNCHANGED tasks
       ELSE IF ~tasksJson.json
       THEN /\ RalphRaise
            /\ UNCHANGED tasks
       ELSE /\ tasks' = tasksJson.tasks
            /\ ralphPc' = "format"
            /\ UNCHANGED << ralphExit, ralphUncaught >>
    /\ UNCHANGED << claudeVars, cursorVars, mcpVars, script, specArg, specExists, ralphDir, tasksJson,
                    instructions, printed, tasksJsonBefore, ralphDirBefore >>

\* The text of format_task_creation_instructions(tasks), as the words that
\* depend on tasks: a section for each task, in the order of the list, with
\* its id, its blocks and its blockedBy.
RECURSIVE format_task_creation_instructions(_)
format_task_creation_instructions(ts) ==
    IF ts = <<>>
    THEN << "After Creating All Tasks" >>
    ELSE << "Task", Head(ts).id, "blocks" >> \o Head(ts).blocks
            \o << "blockedBy" >> \o Head(ts).blockedBy
            \o format_task_creation_instructions(Tail(ts))

\* main of the loader, after load_tasks: the instructions are formatted and
\* written to .ralph/task-creation-instructions.md
WriteInstructions ==
    /\ ralphPc = "format"
    /\ instructions' = format_task_creation_instructions(tasks)
    /\ ralphPc' = "summary"
    /\ UNCHANGED << claudeVars, cursorVars, mcpVars, script, specArg, specExists, ralphDir, tasksJson,
                    tasks, printed, ralphExit, ralphUncaught, tasksJsonBefore, ralphDirBefore >>

\* main of the loader: the task summary, a line for each task and a line of
\* its blockedBy when it has any; then the end of main
PrintSummary ==
    /\ ralphPc = "summary"
    /\ printed' = [i \in 1..Len(tasks) |->
                      [id |-> tasks[i].id,
                       locked |-> tasks[i].blockedBy # <<>>,
                       blockedBy |-> tasks[i].blockedBy]]
    /\ RalphExit(0)
    /\ UNCHANGED << claudeVars, cursorVars, mcpVars, script, specArg, specExists, ralphDir, tasksJson,
                    tasks, instructions, tasksJsonBefore, ralphDirBefore >>

NextRalph ==
    \/ GeneratorMain
    \/ GenerateTasks
    \/ WriteTasks
    \/ load_tasks
    \/ WriteInstructions
    \/ PrintSummary

SpecRalph == InitRalph /\ [][NextRalph]_vars

\* ---------------------------------------------------------------------
\* cursor-orchestrator.py

MaxArgs == 2
MaxCursorRuns == 2

\* GATES: the gate definitions (name and takes_two_args; the description is
\* text). It has no entry "pipeline".
GATES ==
    ("create-spec" :> [name |-> "Create Spec", takes_two_args |-> TRUE]) @@
    ("stress-test" :> [name |-> "Stress Test", takes_two_args |-> FALSE]) @@
    ("validate" :> [name |-> "Validate", takes_two_args |-> FALSE]) @@
    ("generate" :> [name |-> "Generate PRP", takes_two_args |-> FALSE]) @@
    ("check" :> [name |-> "Check PRP", takes_two_args |-> FALSE]) @@
    ("implement" :> [name |-> "Generate Ralph Steps", takes_two_args |-> TRUE]) @@
    ("generate-tests" :> [name |-> "Generate Tests", takes_two_args |-> FALSE]) @@
    ("implement-tdd" :> [name |-> "Implement TDD", takes_two_args |-> FALSE]) @@
    ("parallel-checks" :> [name |-> "Parallel Checks", takes_two_args |-> FALSE]) @@
    ("smoke-test" :> [name |-> "Smoke Test", takes_two_args |-> FALSE]) @@
    ("ai-review" :> [name |-> "AI Review", takes_two_args |-> FALSE])

PIPELINE_GATES ==
    << "create-spec", "stress-test", "validate", "generate", "check",
       "implement", "generate-tests", "implement-tdd", "parallel-checks",
       "smoke-test", "ai-review" >>

\* The gates of run_pipeline's run_gate calls, in the order of the calls.
PipelineCalls ==
    << "create-spec", "stress-test", "validate", "generate", "check", "implement" >>

\* args.command: a gate, pipeline, or a word that is neither
CursorCommands == DOMAIN GATES \cup {"pipeline", "deploy"}

\* How a gate subprocess ends for run_gate_with_bash_orchestrator: with
\* return code 0, with another return code, by TimeoutExpired after the 600
\* seconds of timeout=600, or by another exception of subprocess.run.
SubprocessOutcomes == {"exit0", "exit1", "timeout", "exception"}

MarkerEvent(task, st) == [kind |-> "marker", what |-> task, status |-> st]
InvokeEvent(g) == [kind |-> "invoke", what |-> g, status |-> ""]

InitCursor ==
    /\ ClaudeIdle
    /\ RalphIdle
    /\ McpIdle
    /\ cursorCommand \in CursorCommands
    /\ cursorArgs \in 0..MaxArgs
    /\ cursorPc = "main"
    /\ cursorGate = ""
    /\ task_id = ""
    /\ pipeline_task = ""
    /\ pipelineStep = 0
    /\ results = <<>>
    /\ gateSuccess = FALSE
    /\ requests = {}
    /\ markers = {}
    /\ cursorExit = 0 - 1
    /\ cursorUncaught = FALSE
    /\ cursorRuns = 1
    /\ events = <<>>
    /\ outcomes = <<>>

\* sys.exit(code)
CursorExit(code) ==
    /\ cursorPc' = "exited"
    /\ cursorExit' = code
    /\ cursorUncaught' = FALSE

\* An exception nobody catches: traceback, exit status 1.
CursorRaise ==
    /\ cursorPc' = "exited"
    /\ cursorExit' = 1
    /\ cursorUncaught' = TRUE

\* main's tests of the command and of the number of arguments: the process
\* exits 1 here.
UsageError(cmd, n) ==
    IF cmd \notin DOMAIN GATES /\ cmd # "pipeline" THEN TRUE
    ELSE IF cmd = "pipeline" THEN n < 1
    ELSE IF GATES[cmd].takes_two_args THEN n < 2
    ELSE n < 1

\* main, up to the call of run_pipeline or run_gate
CursorMain ==
    /\ cursorPc = "main"
    /\ IF UsageError(cursorCommand, cursorArgs)
       THEN /\ CursorExit(1)
            /\ UNCHANGED cursorGate
       ELSE IF cursorCommand = "pipeline"
       THEN /\ cursorPc' = "run_pipeline"
            /\ UNCHANGED << cursorGate, cursorExit, cursorUncaught >>
       ELSE /\ cursorGate' = cursorCommand
            /\ cursorPc' = "run_gate"
            /\ UNCHANGED << cursorExit, cursorUncaught >>
    /\ UNCHANGED << claudeVars, ralphVars, mcpVars, cursorCommand, cursorArgs, task_id,
                    pipeline_task, pipelineStep, results, gateSuccess, requests,
                    markers, cursorRuns, events, outcomes >>

\* create_gate_task(gate, target): "gate_info = GATES[gate]" raises KeyError
\* for a gate that GATES does not have.
CanCreateTask(g) == g \in DOMAIN GATES

\* create_gate_task's return value
TaskId(g) == "task-" \o g

\* run_pipeline, up to its first run_gate call: the pipeline overview task is
\* created and marked in_progress.
RunPipeline ==
    /\ cursorPc = "run_pipeline"
    /\ IF CanCreateTask("pipeline")
       THEN /\ requests' = requests \cup {"pipeline"}
            /\ pipeline_task' = TaskId("pipeline")
            /\ markers' = markers \cup { << TaskId("pipeline"), "in_progress" >> }
            /\ events' = Append(events, MarkerEvent(TaskId("pipeline"), "in_progress"))
            /\ results' = <<>>
            /\ pipelineStep' = 1
            /\ cursorGate' = PipelineCalls[1]
            /\ cursorPc' = "run_gate"
            /\ UNCHANGED << cursorExit, cursorUncaught >>
       ELSE /\ CursorRaise
            /\ UNCHANGED << requests, pipeline_task, markers, events, results,
                            pipelineStep, cursorGate >>
    /\ UNCHANGED << claudeVars, ralphVars, mcpVars, cursorCommand, cursorArgs, task_id,
                    gateSuccess, cursorRuns, outcomes >>

\* run_gate, up to the start of the gate subprocess: the task request is
\* written, the task is marked in_progress, subprocess.run is called.
RunGate ==
    /\ cursorPc = "run_gate"
    /\ IF CanCreateTask(cursorGate)
       THEN /\ requests' = requests \cup {cursorGate}
            /\ task_id' = TaskId(cursorGate)
            /\ markers' = markers \cup { << TaskId(cursorGate), "in_progress" >> }
            /\ events' = events \o << MarkerEvent(TaskId(cursorGate), "in_progress"),
                                      InvokeEvent(cursorGate) >>
            /\ cursorPc' = "subprocess"
            /\ UNCHANGED << cursorExit, cursorUncaught >>
       ELSE /\ CursorRaise
            /\ UNCHANGED << requests, task_id, markers, events >>
    /\ UNCHANGED << claudeVars, ralphVars, mcpVars, cursorCommand, cursorArgs, cursorGate,
                    pipeline_task, pipelineStep, results, gateSuccess, cursorRuns,
                    outcomes >>

\* Mutant of GateSucceeded: the return code is not looked at.
GateSucceeded_AnyExit(outcome) == outcome \in {"exit0", "exit1"}

\* run_gate_with_bash_orchestrator's return value: success
GateSucceeded(outcome) == outcome = "exit0"

\* run_gate_with_bash_orchestrator returns: (returncode == 0, output), or
\* (False, ...) from either except clause.
SubprocessEnds ==
    /\ cursorPc = "subprocess"
    /\ \E outcome \in SubprocessOutcomes :
          /\ gateSuccess' = GateSucceeded(outcome)
          /\ outcomes' = Append(outcomes, outcome)
    /\ cursorPc' = "gate_done"
    /\ UNCHANGED << claudeVars, ralphVars, mcpVars, cursorCommand, cursorArgs, cursorGate,
                    task_id, pipeline_task, pipelineStep, results, requests, markers,
                    cursorExit, cursorUncaught, cursorRuns, events >>

\* update_task_status's status at the end of run_gate and run_pipeline
TerminalStatus(ok) == IF ok THEN "completed" ELSE "failed"

\* The end of run_gate (the task is marked completed or failed) and what its
\* caller does with the return value: main exits with 0 or 1; run_pipeline
\* goes on to its next run_gate call, or marks the pipeline task failed and
\* returns False, or after the last call marks it completed and returns True,
\* and main exits with 0 or 1.
GateDone ==
    /\ cursorPc = "gate_done"
    /\ LET gateMarker == << task_id, TerminalStatus(gateSuccess) >>
           gateEvent  == MarkerEvent(task_id, TerminalStatus(gateSuccess))
       IN  IF pipeline_task = ""
           THEN /\ markers' = markers \cup { gateMarker }
                /\ events' = Append(events, gateEvent)
                /\ CursorExit(IF gateSuccess THEN 0 ELSE 1)
                /\ UNCHANGED << results, pipelineStep, cursorGate >>
           ELSE IF gateSuccess /\ pipelineStep < Len(PipelineCalls)
           THEN /\ markers' = markers \cup { gateMarker }
                /\ events' = Append(events, gateEvent)
                /\ results' = Append(results, << cursorGate, TRUE >>)
                /\ pipelineStep' = pipelineStep + 1
                /\ cursorGate' = PipelineCalls[pipelineStep + 1]
                /\ cursorPc' = "run_gate"
                /\ UNCHANGED << cursorExit, cursorUncaught >>
           ELSE /\ markers' = markers \cup
                       { gateMarker, << pipeline_task, TerminalStatus(gateSuccess) >> }
                /\ events' = events \o
                       << gateEvent, MarkerEvent(pipeline_task, TerminalStatus(gateSuccess)) >>
                /\ results' = Append(results, << cursorGate, gateSuccess >>)
                /\ CursorExit(IF gateSuccess THEN 0 ELSE 1)
                /\ UNCHANGED << pipelineStep, cursorGate >>
    /\ UNCHANGED << claudeVars, ralphVars, mcpVars, cursorCommand, cursorArgs, task_id,
                    pipeline_task, gateSuccess, requests, cursorRuns, outcomes >>

\* The next process on the same workspace: the files of .design-ops stay.
CursorRerun ==
    /\ cursorPc = "exited"
    /\ cursorRuns < MaxCursorRuns
    /\ cursorRuns' = cursorRuns + 1
    /\ cursorCommand' \in CursorCommands
    /\ cursorArgs' \in 0..MaxArgs
    /\ cursorPc' = "main"
    /\ cursorGate' = ""
    /\ task_id' = ""
    /\ pipeline_task' = ""
    /\ pipelineStep' = 0
    /\ results' = <<>>
    /\ gateSuccess' = FALSE
    /\ cursorExit' = 0 - 1
    /\ cursorUncaught' = FALSE
    /\ events' = <<>>
    /\ outcomes' = <<>>
    /\ UNCHANGED << claudeVars, ralphVars, mcpVars, requests, markers >>

NextCursor ==
    \/ CursorMain
    \/ RunPipeline
    \/ RunGate
    \/ SubprocessEnds
    \/ GateDone
    \/ CursorRerun

SpecCursor == InitCursor /\ [][NextCursor]_vars

\* ---------------------------------------------------------------------
\* mcp/design-ops-server.py

MaxMsgs == 2
MaxId == 2

\* The tools of the "tools/list" response and of the "tools/call" dispatch.
ToolNames == {"get_invariants", "get_security_rules", "get_project_conventions",
              "validate_spec_snippet"}

\* validate_spec_snippet's vague_words
VagueWords == {"properly", "correctly", "appropriately", "easily", "simply", "just",
               "obviously"}

\* The texts a client sends as snippet.
Snippets == { << "returns", "error", "on", "failure", "success", "criteria" >>,
              << "just", "works" >> }

\* A line of standard input, as json.loads and main see it.
\*   json: notjson (json.loads raises), null, emptyobj ({}), falsy (0, "", [],
\*         false), nonobject (any other value that is not an object), object
\*   method, id (0: none), params (absent, notdict, dict): the object's keys
\*   name, arguments, text: the keys of params, the type of the value the
\*         called tool takes from arguments, and that value when it is text
Plain(j) == [NoMsg EXCEPT !.json = j]

ObjectLines ==
    { [json |-> "object", method |-> m, id |-> i, params |-> p,
       name |-> "absent", arguments |-> "absent", text |-> <<>>] :
         m \in {"tools/list", "tools/call", "ping", "absent"},
         i \in 0..MaxId,
         p \in {"absent", "notdict"} }
    \ { [Plain("object") EXCEPT !.method = "absent"] }

CallLines ==
    { [json |-> "object", method |-> "tools/call", id |-> i, params |-> "dict",
       name |-> n, arguments |-> a, text |-> <<>>] :
         i \in 0..MaxId,
         n \in ToolNames \cup {"absent", "no_such_tool"},
         a \in {"absent", "notdict", "empty", "number"} }
    \cup
    { [json |-> "object", method |-> "tools/call", id |-> i, params |-> "dict",
       name |-> n, arguments |-> "string", text |-> t] :
         i \in 0..MaxId,
         n \in {"get_project_conventions", "validate_spec_snippet"},
         t \in Snippets }

Lines ==
    { Plain(j) : j \in {"notjson", "null", "emptyobj", "falsy", "nonobject"} }
        \cup ObjectLines \cup CallLines

InLine(m) == [dir |-> "in", id |-> m.id, what |-> IF m.json = "object" THEN m.method ELSE m.json]
InEof == [dir |-> "in", id |-> 0, what |-> "eof"]
OutLine(i, w) == [dir |-> "out", id |-> i, what |-> w]

\* The lines read so far.
LinesRead == Len(SelectSeq(io, LAMBDA e : e.dir = "in"))

InitMcp ==
    /\ ClaudeIdle
    /\ RalphIdle
    /\ CursorIdle
    /\ mcpPc = "main"
    /\ msg = NoMsg
    /\ io = <<>>
    /\ mcpExit = 0 - 1
    /\ mcpUncaught = FALSE

\* The end of main: exit status 0
McpExit ==
    /\ mcpPc' = "exited"
    /\ mcpExit' = 0
    /\ mcpUncaught' = FALSE

\* An exception nobody catches: traceback, exit status 1.
McpRaise ==
    /\ mcpPc' = "exited"
    /\ mcpExit' = 1
    /\ mcpUncaught' = TRUE

\* main, before the loop: send_message of the "initialized" message
SendInitialized ==
    /\ mcpPc = "main"
    /\ io' = Append(io, OutLine(0, "initialized"))
    /\ mcpPc' = "receive"
    /\ UNCHANGED << claudeVars, ralphVars, cursorVars, msg, mcpExit, mcpUncaught >>

\* receive_message: readline returns "" at end of file (None is returned),
\* else json.loads(line), which raises on a line that is not JSON. The client
\* sends at most MaxMsgs lines before it closes the stream.
receive_message ==
    /\ mcpPc = "receive"
    /\ \/ /\ io' = Append(io, InEof)
          /\ msg' = Plain("null")
          /\ mcpPc' = "dispatch"
          /\ UNCHANGED << mcpExit, mcpUncaught >>
       \/ /\ LinesRead < MaxMsgs
          /\ \E line \in Lines :
                /\ io' = Append(io, InLine(line))
                /\ IF line.json = "notjson"
                   THEN /\ McpRaise
                        /\ UNCHANGED msg
                   ELSE /\ msg' = line
                        /\ mcpPc' = "dispatch"
                        /\ UNCHANGED << mcpExit, mcpUncaught >>
    /\ UNCHANGED << claudeVars, ralphVars, cursorVars >>

\* "if not msg": None, {} and every other falsy value
Falsy(m) == m.json \in {"null", "emptyobj", "falsy"}

\* The number of issues validate_spec_snippet(snippet) finds: one for each
\* vague word in it, one when it has neither "error" nor "fail", one when it
\* has neither "acceptance" nor "success".
Words(snippet) == { snippet[i] : i \in DOMAIN snippet }
validate_spec_snippet(snippet) ==
    LET vague  == Cardinality(VagueWords \cap Words(snippet))
        errors == IF Words(snippet) \cap {"error", "fail", "failure"} = {} THEN 1 ELSE 0
        accept == IF Words(snippet) \cap {"acceptance", "success"} = {} THEN 1 ELSE 0
    IN  vague + errors + accept

\* The tool call raises: "params.get" and "arguments.get" on a value that is
\* not a dict, Path(project_dir) and snippet.lower() on a value that is not
\* a string.
CallRaises(m) ==
    \/ m.params = "notdict"
    \/ /\ m.params = "dict"
       /\ m.name \in {"get_project_conventions", "validate_spec_snippet"}
       /\ m.arguments \in {"notdict", "number"}

\* What the response to a "tools/call" carries as result: the called tool's
\* answer, or the error for a name that is no tool. found: the file the tool
\* reads exists.
ToolResult(m, found) ==
    IF m.params = "absent" THEN "error: Unknown tool"
    ELSE CASE m.name = "get_invariants" ->
                 IF found THEN "invariants" ELSE "error: system-invariants.md not found"
           [] m.name = "get_security_rules" -> "rules"
           [] m.name = "get_project_conventions" ->
                 IF found THEN "conventions" ELSE "no conventions"
           [] m.name = "validate_spec_snippet" ->
                 IF validate_spec_snippet(m.text) = 0 THEN "valid" ELSE "issues"
           [] OTHER -> "error: Unknown tool"

\* The body of main's loop after receive_message: leave the loop on a falsy
\* msg; msg.get raises on a value that is not an object; answer "tools/list"
\* and "tools/call"; send nothing for another method.
Dispatch ==
    /\ mcpPc = "dispatch"
    /\ IF Falsy(msg)
       THEN /\ McpExit
            /\ UNCHANGED io
       ELSE IF msg.json = "nonobject"
       THEN /\ McpRaise
            /\ UNCHANGED io
       ELSE IF msg.method = "tools/list"
       THEN /\ io' = Append(io, OutLine(msg.id, "tools"))
            /\ mcpPc' = "receive"
            /\ UNCHANGED << mcpExit, mcpUncaught >>
       ELSE IF msg.method = "tools/call"
       THEN IF CallRaises(msg)
            THEN /\ McpRaise
                 /\ UNCHANGED io
            ELSE /\ \E found \in BOOLEAN :
                       io' = Append(io, OutLine(msg.id, ToolResult(msg, found)))
                 /\ mcpPc' = "receive"
                 /\ UNCHANGED << mcpExit, mcpUncaught >>
       ELSE /\ mcpPc' = "receive"
            /\ UNCHANGED << io, mcpExit, mcpUncaught >>
    /\ UNCHANGED << claudeVars, ralphVars, cursorVars, msg >>

NextMcp ==
    \/ SendInitialized
    \/ receive_message
    \/ Dispatch

SpecMcp == InitMcp /\ [][NextMcp]_vars

\* ------------------------------------------------------------- claims
InLoop == command \in {"run-gate", "run-pipeline"}
Last(q) == q[Len(q)]
AllGuidedBefore(q, n) == \A i \in 1..n : q[i] = "guided"

\* C1 (retry bound): one call of run_gate_with_loop with max_iterations N never
\* invokes the validator more than N times (no invocation at all when N is
\* below 1), whatever the validator answers.
C1_RetryBound ==
    InLoop => /\ calls <= (IF max_iterations < 0 THEN 0 ELSE max_iterations)
              /\ Len(log) <= calls

C1_Witness ==
    /\ command = "run-gate"
    /\ pc = "loop_return"
    /\ max_iterations = MaxIter
    /\ calls = max_iterations
    /\ success = "false"
    /\ AllGuidedBefore(log, Len(log))

\* C2 (unrecoverable failures are never retried): once an invocation ended with
\* no guidance or raised, the loop has returned false without waiting for
\* remediation and without another invocation, at any attempt number and with
\* any budget left; every earlier attempt of the call was a guided failure;
\* run-gate then exits 1.
C2_UnrecoverableNotRetried ==
    (InLoop /\ log # <<>> /\ Last(log) \in {"noguide", "raised"} /\ pc # "gate_return")
        => /\ pc \in {"loop_return", "exited"}
           /\ success = "false"
           /\ calls = Len(log)
           /\ waits = Len(log) - 1
           /\ AllGuidedBefore(log, Len(log) - 1)
           /\ (command = "run-gate" /\ pc = "exited") => (exitCode = 1 /\ ~uncaught)

C2_Witness ==
    /\ command = "run-gate"
    /\ pc = "exited"
    /\ exitCode = 1
    /\ Len(log) = 2
    /\ Last(log) = "noguide"
    /\ calls < max_iterations

\* C3 (pass returns immediately): when k guided failures are followed by a
\* pass, the loop has returned true after exactly k+1 invocations and k
\* remediation waits, within the budget, and run-gate exits 0.
C3_PassReturnsImmediately ==
    (InLoop /\ log # <<>> /\ Last(log) = "pass" /\ pc # "gate_return")
        => /\ success = "true"
           /\ AllGuidedBefore(log, Len(log) - 1)
           /\ calls = Len(log)
           /\ waits = Len(log) - 1
           /\ calls <= max_iterations
           /\ pc \in {"loop_return", "stage", "exited"}
           /\ (command = "run-gate" /\ pc = "exited") => (exitCode = 0 /\ ~uncaught)

C3_Witness ==
    /\ command = "run-gate"
    /\ pc = "exited"
    /\ exitCode = 0
    /\ max_iterations = DefaultMaxIterations
    /\ log = << "guided", "guided", "pass" >>
    /\ calls = 3

\* C4 (exhaustion): a run-gate process that has ended after attempts which all
\* failed with guidance, with max_iterations N >= 1, made exactly N
\* invocations, and its loop returned false so that it exited 1.
C4_ExhaustsAfterN ==
    (command = "run-gate" /\ pc = "exited" /\ max_iterations >= 1
        /\ log # <<>> /\ AllGuidedBefore(log, Len(log)))
        => /\ calls = max_iterations
           /\ success = "false"
           /\ exitCode = 1
           /\ ~uncaught

\* C5 (monotonic halting): once the loop of a pipeline stage has returned
\* false, every later stage is Pending and was never run, every earlier stage
\* is Passed, and the process has exited.
C5_MonotonicHalting ==
    \A s \in StageIds :
        status[s] = "Failed"
            => /\ \A t \in StageIds : t > s => (status[t] = "Pending" /\ stageCalls[t] = 0)
               /\ \A t \in StageIds : t < s => status[t] = "Passed"
               /\ pc = "exited"
               /\ stage = s

C5_Witness ==
    /\ status[4] = "Failed"
    /\ status[3] = "Passed"
    /\ status[5] = "Pending"
    /\ pc = "exited"

\* C6 (stage ordering): the stages are create-spec ... ai-review in this order,
\* and a stage has left Pending (its loop was entered, its validator invoked)
\* only when every earlier stage of the list is Passed.
C6_StageOrdering ==
    /\ [i \in StageIds |-> stages(targetArg)[i].gate] =
          << "create-spec", "stress-test", "validate", "generate", "check",
             "generate-tests", "implement-tdd", "parallel-checks", "smoke-test",
             "ai-review" >>
    /\ \A s \in StageIds :
          (status[s] # "Pending" \/ stageCalls[s] > 0)
              => \A t \in StageIds : t < s => status[t] = "Passed"

C6_Witness ==
    /\ status[NumStages] = "Attempting"
    /\ pc = "subprocess"
    /\ calls = 1
    /\ \A t \in 1..(NumStages - 1) : status[t] = "Passed"

C8_PassedIffMarkers ==
    pc = "gate_return"
        => passed = ( /\ result # NoResult
                      /\ \E i \in DOMAIN result.stdout : result.stdout[i] = SuccessMarker
                      /\ \E j \in DOMAIN result.stdout : result.stdout[j] = PassToken )

C8_Witness ==
    /\ pc = "gate_return"
    /\ passed
    /\ result.returncode = 1
    /\ fs # {}
    /\ result.stdout = << PassToken, SuccessMarker >>

\* C9 (failure classification): a failed invocation that returned reports
\* guidance exactly when <dir of target>/<name of target>.<gate>-instruction.md
\* exists, and then reports that very path; an invocation that raised reports
\* no guidance even when the file exists.
C9_GuidanceIffFileExists ==
    (pc = "gate_return" /\ ~passed)
        => LET parts    == PathParts(target)
               expected == Append(PathParent(parts),
                                  PathName(parts) \o "." \o gate \o "-instruction.md")
           IN  IF result = NoResult
               THEN instruction_file = <<>>
               ELSE /\ (instruction_file # <<>>) <=> (expected \in fs)
                    /\ (instruction_file # <<>>) => (instruction_file = expected)

C9_Witness ==
    /\ pc = "gate_return"
    /\ ~passed
    /\ result # NoResult
    /\ Len(PathParts(target)) = 2
    /\ instruction_file = << "specs", "phase4-spec.md.validate-instruction.md" >>
    /\ Cardinality(fs) = 1

\* C10 (hard timeout): a validator that never returns does not leave the
\* process stuck: some step (the timeout cutting the invocation off) is
\* still possible.
C10_HungValidatorCutOff == (child = "hung") => ENABLED Next

\* C11 (missing validator script): when the script does not exist, run-gate,
\* run-pipeline and validate-spec go from startup straight to exit status 1:
\* no validator invocation, no stage, no remediation prompt.
C11_MissingScriptFatalAtStartup ==
    (~scriptExists /\ command \in {"run-gate", "run-pipeline", "validate-spec"})
        => /\ pc \in {"main", "exited"}
           /\ calls = 0
           /\ waits = 0
           /\ child = "none"
           /\ \A s \in StageIds : stageCalls[s] = 0 /\ status[s] = "Pending"
           /\ pc = "exited" => (exitCode = 1 /\ ~uncaught)

C11_Witness ==
    /\ ~scriptExists
    /\ command = "run-pipeline"
    /\ pc = "exited"
    /\ exitCode = 1

\* C17 (stage-local failures never crash the process): run-gate and
\* run-pipeline never end by an uncaught exception; when they have ended,
\* the exit status is 0 or 1 and, once past startup, the loop returned a
\* true/false result.
C17_NoUncaughtException ==
    (InLoop /\ pc = "exited")
        => /\ ~uncaught
           /\ exitCode \in {0, 1}
           /\ scriptExists => success \in {"true", "false"}

\* C18 (validate-spec): validate-spec makes one invocation of the validate
\* gate on the given file, never a second one and never a remediation wait,
\* and exits 0 if that invocation passed and 1 if it did not.
C18_ValidateSpecSingleShot ==
    (command = "validate-spec" /\ scriptExists)
        => /\ calls <= 1
           /\ waits = 0
           /\ pc # "main" => (calls = 1 /\ gate = "validate" /\ target = targetArg)
           /\ pc \in {"main", "subprocess", "gate_result", "gate_return", "exited"}
           /\ pc = "exited" => /\ Len(log) = 1
                               /\ ~uncaught
                               /\ exitCode = (IF log[1] = "pass" THEN 0 ELSE 1)

C18_Witness ==
    /\ command = "validate-spec"
    /\ pc = "exited"
    /\ exitCode = 1
    /\ log = << "guided" >>
    /\ instruction_file # <<>>

\* C14 (idempotent resumability): in a re-run after a run in which the first
\* k stages passed, none of those k stages is run again: the re-run starts
\* at stage k+1.
C14_RerunSkipsPassedStages ==
    run = 2 => \A s \in StageIds :
                  s <= passedBefore => (stageCalls[s] = 0 /\ status[s] # "Attempting")

\* C15 (single writer): in one run each stage is run at most once and its
\* output is recorded at most once: only for a stage that declares an output
\* and has passed, and then the declared output.
C15_SingleWriter ==
    \A s \in StageIds :
        /\ stageCalls[s] <= 1
        /\ Len(artifactWrites[s]) <= 1
        /\ artifactWrites[s] # <<>>
              => /\ artifactWrites[s] = << stages(targetArg)[s].output >>
                 /\ Truthy(stages(targetArg)[s].output)
                 /\ status[s] = "Passed"

C15_Witness ==
    /\ pc = "exited"
    /\ exitCode = 0
    /\ artifactWrites[1] = << << "spec.md" >> >>
    /\ artifactWrites[4] = << << "spec-PRP.md" >> >>
    /\ artifactWrites[6] = << << "tests", "/" >> >>
    /\ artifactWrites[7] = << << "src", "/" >> >>
    /\ artifactWrites[2] = <<>>
    /\ \A s \in StageIds : stageCalls[s] = 1

\* C19 (cancellation): once Ctrl-C has arrived during a remediation wait, the
\* loop has returned false (Exhausted) and the process has not ended by an
\* uncaught exception or a signal.
C19_CancelExhausts ==
    cancelled => /\ success = "false"
                 /\ pc \in {"loop_return", "exited"}
                 /\ ~uncaught

\* The ids of a manifest, and the ids its tasks name.
ManifestIds(m) == { m[i].id : i \in DOMAIN m }
SeqRange(q) == { q[i] : i \in DOMAIN q }
NamedIds(m) == UNION { SeqRange(m[i].blocks) \cup SeqRange(m[i].blockedBy) : i \in DOMAIN m }

\* The dependency relation of a manifest: <<a, b>> when b must wait for a.
BlockedByEdges(m) ==
    UNION { { << a, m[i].id >> : a \in SeqRange(m[i].blockedBy) } : i \in DOMAIN m }
BlocksEdges(m) ==
    UNION { { << m[i].id, b >> : b \in SeqRange(m[i].blocks) } : i \in DOMAIN m }

\* No cycle among nodes along edges: the nodes can all be taken away one
\* layer at a time, a layer being the nodes nothing left points to.
RECURSIVE Acyclic(_, _)
Acyclic(nodes, edges) ==
    LET free == { n \in nodes : ~ \E e \in edges : e[2] = n /\ e[1] \in nodes }
    IN  IF nodes = {} THEN TRUE
        ELSE IF free = {} THEN FALSE
        ELSE Acyclic(nodes \ free, edges)

ValidGraph(m) ==
    /\ NamedIds(m) \subseteq ManifestIds(m)
    /\ Acyclic(ManifestIds(m), BlockedByEdges(m) \cup BlocksEdges(m))

\* C12 (graph validation): the loader never writes task-creation
\* instructions for a manifest that has a dependency cycle or names an id it
\* does not hold.
C12_InvalidManifestRejected ==
    (script = "ralph-task-loader" /\ tasksJson.json /\ ~ValidGraph(tasksJson.tasks))
        => (instructions = <<>> /\ printed = <<>>)

\* C13 (well-formed manifest): what generate_tasks returns, and what the
\* generator then writes, has 12 pairwise distinct ids, names only ids it
\* holds, has an acyclic blockedBy relation, a blockedBy entry for every task
\* but ralph-1 and a blocks entry for every task but ralph-8.
WellFormedManifest(m) ==
    /\ Len(m) = 12
    /\ \A i, j \in DOMAIN m : m[i].id = m[j].id => i = j
    /\ NamedIds(m) \subseteq ManifestIds(m)
    /\ Acyclic(ManifestIds(m), BlockedByEdges(m))
    /\ \A i \in DOMAIN m : m[i].id # "ralph-1" => m[i].blockedBy # <<>>
    /\ \A i \in DOMAIN m : m[i].id # "ralph-8" => m[i].blocks # <<>>

C13_GeneratedManifestWellFormed ==
    /\ (script \in Generators /\ ralphPc = "write") => WellFormedManifest(tasks)
    /\ (script \in Generators /\ ralphPc = "exited" /\ ralphExit = 0)
          => (tasksJson = JsonFile(tasks) /\ WellFormedManifest(tasksJson.tasks))

C13_Witness ==
    /\ script = "ralph-orchestrator-v3-parallel"
    /\ ralphPc = "exited"
    /\ ralphExit = 0
    /\ tasksJson.exists
    /\ Len(tasksJson.tasks) = 12
    /\ tasksJsonBefore # tasksJson

\* C20 (cursor pipeline, all gates pass): a "pipeline" command with its
\* requirements directory, all of whose gate subprocesses exited with code 0,
\* ends with exit status 0, having run gates one after another, each once,
\* and having marked the pipeline task in_progress and then completed.
EventIndex(e) == { i \in DOMAIN events : events[i] = e }
C20_PipelineAllPass ==
    ( /\ cursorCommand = "pipeline"
      /\ cursorArgs >= 1
      /\ cursorPc = "exited"
      /\ \A i \in DOMAIN outcomes : outcomes[i] = "exit0" )
    => /\ cursorExit = 0
       /\ ~cursorUncaught
       /\ outcomes # <<>>
       /\ \A g \in DOMAIN GATES : Cardinality(EventIndex(InvokeEvent(g))) <= 1
       /\ \E i, j \in DOMAIN events :
             /\ i < j
             /\ events[i] = MarkerEvent("task-pipeline", "in_progress")
             /\ events[j] = MarkerEvent("task-pipeline", "completed")

\* C21 (remediation only between attempts): a loop that has returned false
\* after attempts that all failed with guidance has waited for remediation
\* once less than it invoked the validator: there is no wait after the final
\* attempt.
C21_NoWaitAfterFinalAttempt ==
    ( /\ InLoop
      /\ pc \in {"loop_return", "exited"}
      /\ ~uncaught
      /\ success = "false"
      /\ log # <<>>
      /\ AllGuidedBefore(log, Len(log)) )
    => waits = calls - 1

\* The output of the nearest stage before s that declares one (None: no
\* stage before s declares an output).
RECURSIVE NearestOutput(_, _)
NearestOutput(tbl, s) ==
    IF s <= 1 THEN None
    ELSE IF Truthy(tbl[s - 1].output) THEN tbl[s - 1].output
    ELSE NearestOutput(tbl, s - 1)

\* C22 (artifact handoff): the first stage is run on the requirements
\* directory, every later stage on the output of the nearest earlier stage
\* that declares one, and this target is the stage's own declared input.
C22_ArtifactHandoff ==
    \A s \in StageIds :
        stageCalls[s] > 0
            => /\ s = 1 => stageTarget[s] = targetArg
               /\ s > 1 => stageTarget[s] = NearestOutput(stages(targetArg), s)
               /\ stageTarget[s] = stages(targetArg)[s].input

C22_Witness ==
    /\ command = "run-pipeline"
    /\ stageCalls[NumStages] = 1
    /\ stageTarget[1] = << "requirements", "/", "phase4", "/" >>
    /\ stageTarget[5] = << "spec-PRP.md" >>
    /\ stageTarget[NumStages] = << "src", "/" >>

\* C27 (degenerate retry budget): run-gate with max_iterations N <= 0 never
\* invokes the validator and never waits for remediation; its loop returns
\* false and the process exits 1.
C27_DegenerateBudget ==
    (command = "run-gate" /\ iterationsArg <= 0)
        => /\ calls = 0
           /\ waits = 0
           /\ log = <<>>
           /\ child = "none"
           /\ pc \in {"main", "loop", "loop_return", "exited"}
           /\ pc = "loop_return" => success = "false"
           /\ pc = "exited" => (exitCode = 1 /\ ~uncaught)

C27_Witness ==
    /\ command = "run-gate"
    /\ scriptExists
    /\ iterationsArg = 0
    /\ max_iterations = 0
    /\ pc = "exited"
    /\ success = "false"
    /\ exitCode = 1

\* The gates whose subprocess this process has invoked, in order.
InvokedGates ==
    LET inv == SelectSeq(events, LAMBDA e : e.kind = "invoke")
    IN  [i \in 1..Len(inv) |-> inv[i].what]

\* A single-gate command that got past main's checks.
GateCommand == cursorCommand \in DOMAIN GATES /\ ~UsageError(cursorCommand, cursorArgs)

\* C23 (status lifecycle of run_gate): a call of run_gate writes the
\* in_progress marker, then invokes the gate subprocess once, then writes one
\* terminal marker: completed if the subprocess returned exit code 0 (no
\* timeout, no exception), failed otherwise; it returns true, and the
\* process exits 0, in the completed case only.
C23_GateLifecycle ==
    GateCommand =>
        LET t == TaskId(cursorCommand)
            started == << MarkerEvent(t, "in_progress"), InvokeEvent(cursorCommand) >>
        IN  /\ cursorPc \in {"main", "run_gate"} => (events = <<>> /\ outcomes = <<>>)
            /\ cursorPc = "subprocess" => (events = started /\ outcomes = <<>>)
            /\ cursorPc = "gate_done"
                  => /\ events = started
                     /\ Len(outcomes) = 1
                     /\ gateSuccess <=> outcomes[1] = "exit0"
            /\ cursorPc = "exited"
                  => /\ Len(outcomes) = 1
                     /\ events = Append(started,
                           MarkerEvent(t, IF outcomes[1] = "exit0"
                                          THEN "completed" ELSE "failed"))
                     /\ cursorExit = (IF outcomes[1] = "exit0" THEN 0 ELSE 1)
                     /\ ~cursorUncaught

C23_Witness ==
    /\ cursorCommand = "implement"
    /\ cursorArgs = 2
    /\ cursorPc = "exited"
    /\ outcomes = << "timeout" >>
    /\ << "task-implement", "failed" >> \in markers
    /\ cursorExit = 1

\* C24 (pipeline gate sequence): a pipeline command all of whose gate
\* subprocesses exited with code 0 has run exactly the gates of
\* PIPELINE_GATES, in that order.
C24_PipelineRunsAllGates ==
    ( /\ cursorCommand = "pipeline"
      /\ cursorArgs >= 1
      /\ cursorPc = "exited"
      /\ \A i \in DOMAIN outcomes : outcomes[i] = "exit0" )
    => InvokedGates = PIPELINE_GATES

\* C26 (markers are mutually exclusive): between processes, no task has both
\* a completed and a failed marker, and a task with a completed or failed
\* marker has no in_progress marker.
C26_MarkersExclusive ==
    cursorPc = "exited"
        => \A g \in DOMAIN GATES :
              /\ ~ ( << TaskId(g), "completed" >> \in markers
                     /\ << TaskId(g), "failed" >> \in markers )
              /\ ( << TaskId(g), "completed" >> \in markers
                   \/ << TaskId(g), "failed" >> \in markers )
                     => << TaskId(g), "in_progress" >> \notin markers

\* The chain ralph-1, 2, 3, 4, 5, 5.5, 5.75, 6, 6.5, 6.9, 7, 8.
ChainIds ==
    << "ralph-1", "ralph-2", "ralph-3", "ralph-4", "ralph-5", "ralph-5.5",
       "ralph-5.75", "ralph-6", "ralph-6.5", "ralph-6.9", "ralph-7", "ralph-8" >>
ChainEdges == { << ChainIds[i], ChainIds[i + 1] >> : i \in 1..(Len(ChainIds) - 1) }

\* C25 (blocks is the converse of blockedBy; both generators agree): in the
\* manifest either generator returns and writes, A lists B in blocks exactly
\* when B lists A in blockedBy, the ids are those of the chain in its order
\* and the edges are those of the chain.
C25_BlocksConverseOfBlockedBy ==
    (script \in Generators /\ (ralphPc = "write" \/ (ralphPc = "exited" /\ ralphExit = 0)))
        => /\ BlocksEdges(tasks) = BlockedByEdges(tasks)
           /\ [i \in 1..Len(tasks) |-> tasks[i].id] = ChainIds
           /\ BlockedByEdges(tasks) = ChainEdges
           /\ ralphPc = "exited" => tasksJson.tasks = tasks

C25_Witness ==
    /\ script = "ralph-orchestrator"
    /\ ralphPc = "exited"
    /\ ralphExit = 0
    /\ Len(tasksJson.tasks) = 12
    /\ tasksJson.tasks[6].blocks = << "ralph-5.75" >>
    /\ tasksJson.tasks[7].blockedBy = << "ralph-5.5" >>

\* C28 (generation leaves the state unchanged on error): a generator given a
\* spec file that does not exist exits 1, has not created .ralph and has not
\* written tasks.json: a tasks.json that was there keeps its content.
C28_MissingSpecLeavesStateUnchanged ==
    (script \in Generators /\ specArg /\ ~specExists)
        => /\ tasksJson = tasksJsonBefore
           /\ ralphDir = ralphDirBefore
           /\ tasks = <<>>
           /\ ralphPc \in {"main", "generate_tasks", "exited"}
           /\ ralphPc = "exited" => (ralphExit = 1 /\ ~ralphUncaught)

C28_Witness ==
    /\ script \in Generators
    /\ specArg
    /\ ~specExists
    /\ ralphPc = "exited"
    /\ ralphExit = 1
    /\ tasksJsonBefore.exists
    /\ tasksJsonBefore.tasks # <<>>
    /\ tasksJson = tasksJsonBefore

\* A line read from stdin that is a request the server answers.
IsToolRequest(e) == e.dir = "in" /\ e.what \in {"tools/list", "tools/call"}

\* C29 (request/response matching): the first line of output is the
\* "initialized" message and it is written before any line is read; every
\* tools/list or tools/call request that the server has finished with is
\* followed at once by one response with the request's id, and the next
\* thing after that response is a read; a tools/call that names no known
\* tool is answered with the unknown-tool error.
C29_RequestResponseMatching ==
    /\ io # <<>> => io[1] = OutLine(0, "initialized")
    /\ \A i \in DOMAIN io :
          (IsToolRequest(io[i]) /\ (i < Len(io) \/ mcpPc \in {"receive", "exited"}))
              => /\ i < Len(io)
                 /\ io[i + 1].dir = "out"
                 /\ io[i + 1].id = io[i].id
                 /\ i + 2 <= Len(io) => io[i + 2].dir = "in"
    /\ ( /\ mcpPc = "receive"
         /\ msg.method = "tools/call"
         /\ msg.params = "dict"
         /\ msg.name \notin ToolNames )
          => Last(io) = OutLine(msg.id, "error: Unknown tool")

\* C30 (the server loop ends only at end of file): a server that has ended
\* has read end of file as its last line (a line that is not JSON at all is
\* no message and is left aside).
C30_OnlyEofEndsServer ==
    mcpPc = "exited"
        => Last(SelectSeq(io, LAMBDA e : e.dir = "in")).what \in {"eof", "notjson"}
====
